---- MODULE Spec2Model ----
(***************************************************************************)
(* The row-enrichment pipeline of the process-data command:                *)
(* processFullDataset with its Task Source goroutine, the processWorker    *)
(* goroutines, the collectResults goroutine (the Result Sink), the         *)
(* interrupt listener of RunProcessData and the final save.                *)
(***************************************************************************)
EXTENDS Integers, Sequences, FiniteSets, TLC

\* ------------------------------------------------------------------ bounds
NumRows == 3
NumHeaders == 1
NumTargets == 2
MaxWorkers == 2
MaxBatch == 2

\* ------------------------------------------------------------------ inputs
RowIdx == 1..NumRows
Targets == 1..NumTargets
\* README: "-workers <n>: Parallel workers for speed (default: 10, max: 100)"
DocumentedMaxWorkers == 100
\* values of the -workers flag, up to past the documented maximum
WorkerFlags == 1..(DocumentedMaxWorkers + MaxWorkers)
\* values of the -sample flag, up to past the number of rows
SampleFlags == 0..(NumRows + 1)
\* what the user types at "Proceed with full processing? (y/n): "
Responses == {"y", "Y", "n", ""}
\* strings.ToLower on those answers
ToLower(r) == IF r = "Y" THEN "y" ELSE r
\* len(sample): sample := rows; if len(rows) > sampleSize { sample = rows[:sampleSize] }
SampleLen(size) == IF NumRows > size THEN size ELSE NumRows
\* numbers of columns of the sheets saveExcel is given; the largest is the
\* first one whose last column has a three-letter name
MaxColumns == 703
SheetWidths == {1, 26, 27, MaxColumns}
\* the runes 'A' + 0 .. 'A' + 25
Letters == <<"A", "B", "C", "D", "E", "F", "G", "H", "I", "J", "K", "L", "M",
             "N", "O", "P", "Q", "R", "S", "T", "U", "V", "W", "X", "Y", "Z">>
\* no saveExcel call under way
NoSheet == [pc |-> "idle", width |-> 0, col |-> 0, index |-> -1,
            result |-> <<>>, cells |-> {}]
\* The pre-flight state of a run with -sample 0 that was confirmed with y.
SampleSkipped == [size |-> 0, calls |-> <<>>, failed |-> {}, response |-> "y"]
\* values of the -batch-size flag below the useful range
BatchFlags == (0 - MaxBatch)..0
WorkerIds == 1..MaxWorkers

\* The table loadInputFile returned: every row has one cell per header.
InputCell(i, j) == IF (i + j) % 2 = 0 THEN "a" ELSE "b"
InputRows == [i \in RowIdx |-> [j \in 1..NumHeaders |-> InputCell(i, j)]]

\* Tables as excelize's GetRows returns them: a row can have fewer cells than
\* the header row (trailing empty cells are dropped) or more.
RowLens == {NumHeaders - 1, NumHeaders, NumHeaders + 1}
RaggedTables ==
  { [i \in RowIdx |-> [j \in 1..len[i] |-> InputCell(i, j)]] :
      len \in [RowIdx -> RowLens] }

\* The token count the service reports for the call on row i.
TokensUsed(i) == i

\* What processRow can return for one row: an error, a map with a value for
\* every target column, or a map that lacks the last one (the JSON arguments
\* of the function call are unmarshalled without a check of their keys).
TransformOutcomes ==
  { [ok |-> TRUE, keys |-> Targets],
    [ok |-> TRUE, keys |-> Targets \ {NumTargets}],
    [ok |-> FALSE, keys |-> {}] }

VARIABLES
  rows,          \* the input rows
  workerCount,   \* -workers
  batchSize,     \* -batch-size
  cancelled,     \* ctx.Done() is closed
  preflight,     \* the pre-flight sample: -sample, rows called, rows failed, the answer
  sigChan,       \* signals buffered in sigChan (capacity 1) that nobody received
  taskChan,      \* buffered tasks (row indices)
  taskClosed,    \* close(taskChan) has run
  resultChan,    \* buffered ProcessingResults
  resultClosed,  \* close(resultChan) has run
  enrichedRows,  \* the Output Table
  stats,         \* CompletedRows, FailedRows, TotalTokens
  processedCount,\* collectResults' local counter
  checkpoint,    \* content of outputFile + ".tmp" (<<>>: not written yet)
  finalOutput,   \* content of outputFile (<<>>: not written yet)
  srcI,          \* the row the Task Source offers next
  srcPc,         \* "off" (not started yet) | "loop" | "done" | "dead" (the process panicked)
  wPc,           \* per worker: "recv" | "check" | "call" | "send" | "exit" | "off" | "dead"
  wTask,         \* per worker: the row index of the task it holds (0: none)
  started,       \* processWorker goroutines the start loop has launched
  callOutcome,   \* per row: what processRow returned for it (NoCall: nothing yet)
  sinkPc,        \* "off" | "select" | "done" | "exit" | "panic"
  sinkPath,      \* "none" | "closed" | "cancel": how the sink left its loop
  mainPc,        \* "sample" | "confirm" | "declined" | "start" | "wait" | "close" | "recvDone" | "returned" | "saved" | "failed" | "crashed"
  sent,          \* rows whose Task was sent on taskChan
  skipped,       \* rows at which the Task Source took the ctx.Done() case
  writeCount,    \* per row: how often the sink wrote its target cells
  ioError,       \* "none" | "checkpoint" | "output": the last save that returned an error
  sinkCancelBuf, \* the results buffered when the sink took the ctx.Done() case
  excel          \* one saveExcel call: its header loop and the cell names written

input == <<rows, workerCount, batchSize>>
chans == <<taskChan, taskClosed, resultChan, resultClosed>>
table == <<enrichedRows, stats, processedCount, writeCount>>
files == <<checkpoint, finalOutput, ioError>>
source == <<srcI, srcPc, sent, skipped>>
workers == <<wPc, wTask, callOutcome, started>>
sink == <<sinkPc, sinkPath, sinkCancelBuf>>
vars == <<input, chans, table, files, source, workers, sink, mainPc, cancelled, sigChan, preflight, excel>>

\* ----------------------------------------------------------------- helpers
\* No processRow call for the row has returned.
NoCall == [ok |-> FALSE, keys |-> {0}]

\* Channels that buffer three entries per worker.
ChanCapThreePerWorker == workerCount * 3

\* make(chan T, workerCount*2)
ChanCap == workerCount * 2

\* enrichedRows[i] = make([]string, len(row)+len(columnSpecs)); copy(..., row)
NewEnrichedRow(row) ==
  [j \in 1..(Len(row) + NumTargets) |-> IF j <= Len(row) THEN row[j] ELSE ""]

\* A worker that puts the error message in the first target column only.
ErrorResultsFirstOnly == [t \in {1} |-> "ERROR"]

\* processWorker's construction of the ProcessingResult from processRow's return.
ErrorResults == [t \in Targets |-> "ERROR"]
MakeResult(i, out) ==
  IF out.ok
    THEN [RowIndex |-> i, Error |-> FALSE, Tokens |-> TokensUsed(i),
          Results |-> [t \in out.keys |-> "val"]]
    ELSE [RowIndex |-> i, Error |-> TRUE, Tokens |-> 0, Results |-> ErrorResults]

\* A sink that files each result under its arrival position.
SinkRowByArrival(res) == processedCount + 1

\* collectResults: row := enrichedRows[result.RowIndex]
SinkRow(res) == res.RowIndex

\* A sink that marks a target column missing from the Results as "N/A".
ApplyCellMarksMissing(res, t) ==
  IF t \in DOMAIN res.Results THEN res.Results[t] ELSE "N/A"

\* collectResults: the row after the critical section that applies a result.
ApplyCell(res, t) == IF t \in DOMAIN res.Results THEN res.Results[t] ELSE ""

ApplyResult(row, res) ==
  [j \in 1..Len(row) |->
     IF j > NumHeaders /\ j - NumHeaders \in Targets
       THEN ApplyCell(res, j - NumHeaders)
       ELSE row[j]]

\* A sink that leaves failed rows out of the statistics.
UpdateStatsSkipsFailed(s, res) ==
  IF ~res.Error
    THEN [s EXCEPT !.CompletedRows = @ + 1, !.TotalTokens = @ + res.Tokens]
    ELSE s

\* A sink that counts a failed row as completed too.
UpdateStatsCountsBoth(s, res) ==
  IF ~res.Error
    THEN [s EXCEPT !.CompletedRows = @ + 1, !.TotalTokens = @ + res.Tokens]
    ELSE [s EXCEPT !.FailedRows = @ + 1, !.CompletedRows = @ + 1]

\* collectResults: the statistics after a result.
UpdateStats(s, res) ==
  IF ~res.Error
    THEN [s EXCEPT !.CompletedRows = @ + 1, !.TotalTokens = @ + res.Tokens]
    ELSE [s EXCEPT !.FailedRows = @ + 1]

\* A sink that saves one result early.
BatchDueOneEarly(n) == (n + 1) % batchSize = 0

\* Go's a % b for a >= 0 and b # 0: the remainder of the truncated division,
\* which for a divisor b < 0 is that for -b.
GoRem(a, b) == a % (IF b < 0 THEN -b ELSE b)

\* if processedCount%batchSize == 0
BatchDue(n) == GoRem(n, batchSize) = 0

\* ------------------------------------------------------------------- Init
\* The state processFullDataset sets up before its goroutines take a step.
Start ==
  /\ cancelled = FALSE
  /\ sigChan = 0
  /\ preflight = SampleSkipped
  /\ excel = NoSheet
  /\ taskChan = <<>>
  /\ taskClosed = FALSE
  /\ resultChan = <<>>
  /\ resultClosed = FALSE
  /\ enrichedRows = [i \in RowIdx |-> NewEnrichedRow(rows[i])]
  /\ stats = [CompletedRows |-> 0, FailedRows |-> 0, TotalTokens |-> 0]
  /\ processedCount = 0
  /\ checkpoint = <<>>
  /\ finalOutput = <<>>
  /\ ioError = "none"
  /\ srcI = 1
  /\ srcPc = "loop"
  /\ wPc = [w \in WorkerIds |-> IF w <= workerCount THEN "recv" ELSE "off"]
  /\ wTask = [w \in WorkerIds |-> 0]
  /\ started = workerCount
  /\ callOutcome = [i \in RowIdx |-> NoCall]
  /\ sinkPc = "select"
  /\ sinkPath = "none"
  /\ mainPc = "wait"
  /\ sent = {}
  /\ skipped = {}
  /\ writeCount = [i \in RowIdx |-> 0]
  /\ sinkCancelBuf = <<>>

Init ==
  /\ rows = InputRows
  /\ workerCount \in 1..MaxWorkers
  /\ batchSize \in 1..MaxBatch
  /\ Start

\* processFullDataset before its loop that starts the workers: the channels
\* and the table exist, the sink runs, no worker and no task sender yet.  The
\* -workers flag is any positive integer the flag package parses.
InitStartup ==
  /\ rows = InputRows
  /\ workerCount \in WorkerFlags
  /\ batchSize = 1
  /\ cancelled = FALSE
  /\ sigChan = 0
  /\ preflight = SampleSkipped
  /\ excel = NoSheet
  /\ taskChan = <<>>
  /\ taskClosed = FALSE
  /\ resultChan = <<>>
  /\ resultClosed = FALSE
  /\ enrichedRows = [i \in RowIdx |-> NewEnrichedRow(rows[i])]
  /\ stats = [CompletedRows |-> 0, FailedRows |-> 0, TotalTokens |-> 0]
  /\ processedCount = 0
  /\ checkpoint = <<>>
  /\ finalOutput = <<>>
  /\ ioError = "none"
  /\ srcI = 1
  /\ srcPc = "off"
  /\ wPc = <<>>
  /\ wTask = <<>>
  /\ started = 0
  /\ callOutcome = [i \in RowIdx |-> NoCall]
  /\ sinkPc = "select"
  /\ sinkPath = "none"
  /\ mainPc = "start"
  /\ sent = {}
  /\ skipped = {}
  /\ writeCount = [i \in RowIdx |-> 0]
  /\ sinkCancelBuf = <<>>

\* The same start with a -batch-size that is zero or negative, which the flag
\* package parses and RunProcessData passes on unchecked.
InitBatch ==
  /\ rows = InputRows
  /\ workerCount = 1
  /\ batchSize \in BatchFlags
  /\ Start

\* The same start with a -workers of zero as well: make(chan T, 0) gives
\* unbuffered channels and the start loop launches no worker.
InitAnyWorkers ==
  /\ rows = InputRows
  /\ workerCount \in 0..MaxWorkers
  /\ batchSize = 1
  /\ Start

\* RunProcessData after the load: nothing of the pipeline exists yet.
NotStarted ==
  /\ rows = InputRows
  /\ workerCount = 1
  /\ batchSize = 1
  /\ cancelled = FALSE
  /\ sigChan = 0
  /\ taskChan = <<>>
  /\ taskClosed = FALSE
  /\ resultChan = <<>>
  /\ resultClosed = FALSE
  /\ enrichedRows = <<>>
  /\ stats = [CompletedRows |-> 0, FailedRows |-> 0, TotalTokens |-> 0]
  /\ processedCount = 0
  /\ checkpoint = <<>>
  /\ finalOutput = <<>>
  /\ ioError = "none"
  /\ srcI = 1
  /\ srcPc = "off"
  /\ wPc = [w \in WorkerIds |-> "off"]
  /\ wTask = [w \in WorkerIds |-> 0]
  /\ started = 0
  /\ callOutcome = [i \in RowIdx |-> NoCall]
  /\ sinkPc = "off"
  /\ sinkPath = "none"
  /\ sent = {}
  /\ skipped = {}
  /\ writeCount = [i \in RowIdx |-> 0]
  /\ sinkCancelBuf = <<>>

InitSample ==
  /\ NotStarted
  /\ mainPc = "sample"
  /\ preflight \in {[size |-> k, calls |-> <<>>, failed |-> {}, response |-> ""] :
                     k \in SampleFlags}
  /\ excel = NoSheet

\* saveExcel on its own, entered with a sheet of one of the widths: the
\* pipeline is not part of this specification.
InitExcel ==
  /\ NotStarted
  /\ mainPc = "sample"
  /\ preflight = SampleSkipped
  /\ excel \in {[NoSheet EXCEPT !.pc = "col", !.width = w] : w \in SheetWidths}

\* The same start on a table whose rows differ in length from the header row.
InitRagged ==
  /\ rows \in RaggedTables
  /\ workerCount = 1
  /\ batchSize = 1
  /\ Start

\* where RunProcessData is while the signal listener exists and the command
\* has not ended
Running == {"start", "wait", "close", "recvDone", "returned"}

\* ------------------------------------------------------- pre-flight sample
\* A sample loop that returns the first error instead of printing it.
SampleRowStopsOnError ==
  /\ mainPc = "sample"
  /\ Len(preflight.calls) < SampleLen(preflight.size)
  /\ LET i == Len(preflight.calls) + 1
     IN \E ok \in BOOLEAN :
          /\ preflight' = [preflight EXCEPT
                             !.calls = Append(@, i),
                             !.failed = IF ok THEN @ ELSE @ \cup {i}]
          /\ mainPc' = IF ok THEN "sample" ELSE "failed"
  /\ UNCHANGED <<input, chans, table, files, source, workers, sink,
                 cancelled, sigChan, excel>>

\* testSample: one pass of its loop: processRow for the next sample row; an
\* error is printed and the loop continues
SampleRow ==
  /\ mainPc = "sample"
  /\ Len(preflight.calls) < SampleLen(preflight.size)
  /\ LET i == Len(preflight.calls) + 1
     IN \E ok \in BOOLEAN :
          preflight' = [preflight EXCEPT
                          !.calls = Append(@, i),
                          !.failed = IF ok THEN @ ELSE @ \cup {i}]
  /\ UNCHANGED <<input, chans, table, files, source, workers, sink, mainPc,
                 cancelled, sigChan, excel>>

\* testSample returns nil; RunProcessData prints the question
SampleEnd ==
  /\ mainPc = "sample"
  /\ Len(preflight.calls) = SampleLen(preflight.size)
  /\ mainPc' = "confirm"
  /\ UNCHANGED <<input, chans, table, files, source, workers, sink,
                 cancelled, sigChan, preflight, excel>>

\* fmt.Scanln(&response): anything but y / Y ends the command; on y / Y
\* processFullDataset allocates the table and starts its goroutines
Confirm ==
  /\ mainPc = "confirm"
  /\ \E r \in Responses :
       /\ preflight' = [preflight EXCEPT !.response = r]
       /\ IF ToLower(r) # "y"
            THEN /\ mainPc' = "declined"
                 /\ UNCHANGED <<enrichedRows, srcPc, wPc, started, sinkPc>>
            ELSE /\ mainPc' = "wait"
                 /\ enrichedRows' = [i \in RowIdx |-> NewEnrichedRow(rows[i])]
                 /\ srcPc' = "loop"
                 /\ wPc' = [w \in WorkerIds |->
                              IF w <= workerCount THEN "recv" ELSE "off"]
                 /\ started' = workerCount
                 /\ sinkPc' = "select"
  /\ UNCHANGED <<input, chans, stats, processedCount, writeCount, files, srcI,
                 sent, skipped, wTask, callOutcome, sinkPath, sinkCancelBuf,
                 cancelled, sigChan, excel>>

\* ------------------------------------------------------------- saveExcel
\* saveExcel's header loop, next column: columnIndexToLetter(i) is entered
ColumnIndexToLetter ==
  /\ excel.pc = "col"
  /\ excel.col < excel.width
  /\ excel' = [excel EXCEPT !.pc = "letters", !.index = excel.col,
                            !.result = <<>>]
  /\ UNCHANGED <<input, chans, table, files, source, workers, sink, mainPc,
                 cancelled, sigChan, preflight>>

\* A loop body that reads the index as a plain base-26 number.
LetterLoopPositional ==
  /\ excel.pc = "letters"
  /\ excel.index >= 0
  /\ excel' = [excel EXCEPT
                 !.result = <<Letters[(excel.index % 26) + 1]>> \o @,
                 !.index = IF excel.index < 26 THEN -1 ELSE excel.index \div 26]
  /\ UNCHANGED <<input, chans, table, files, source, workers, sink, mainPc,
                 cancelled, sigChan, preflight>>

\* columnIndexToLetter: one pass of `for index >= 0`
LetterLoop ==
  /\ excel.pc = "letters"
  /\ excel.index >= 0
  /\ excel' = [excel EXCEPT
                 !.result = <<Letters[(excel.index % 26) + 1]>> \o @,
                 !.index = (excel.index \div 26) - 1]
  /\ UNCHANGED <<input, chans, table, files, source, workers, sink, mainPc,
                 cancelled, sigChan, preflight>>

\* columnIndexToLetter returns and f.SetCellValue writes the header cell
SetCellValue ==
  /\ excel.pc = "letters"
  /\ excel.index < 0
  /\ excel' = [excel EXCEPT !.pc = "col", !.col = @ + 1,
                            !.cells = @ \cup {excel.result}]
  /\ UNCHANGED <<input, chans, table, files, source, workers, sink, mainPc,
                 cancelled, sigChan, preflight>>

\* the loop is over: f.SaveAs(filename)
SaveAs ==
  /\ excel.pc = "col"
  /\ excel.col = excel.width
  /\ excel' = [excel EXCEPT !.pc = "done"]
  /\ UNCHANGED <<input, chans, table, files, source, workers, sink, mainPc,
                 cancelled, sigChan, preflight>>

\* ------------------------------------------------------ Shutdown Orchestrator
\* A listener that takes every signal and switches the cancellation state.
InterruptToggles ==
  /\ mainPc \in Running
  /\ cancelled' = ~cancelled
  /\ UNCHANGED <<input, chans, table, files, source, workers, sink, mainPc,
                 sigChan, preflight, excel>>

\* The interrupt listener: <-sigChan; cancel().
Interrupt ==
  /\ ~cancelled
  /\ mainPc \in Running
  /\ cancelled' = TRUE
  /\ UNCHANGED <<input, chans, table, files, source, workers, sink, mainPc,
                 sigChan, preflight, excel>>

\* A further SIGINT / SIGTERM after the listener goroutine took the first one
\* and ended: signal.Notify's send puts it in sigChan's buffer, where it stays.
\* (With the buffer full the send is dropped: no step at all.)
SignalAgain ==
  /\ cancelled
  /\ mainPc \in Running
  /\ sigChan = 0
  /\ sigChan' = 1
  /\ UNCHANGED <<input, chans, table, files, source, workers, sink, mainPc,
                 cancelled, preflight, excel>>

\* defer cancel() as RunProcessData returns: a second call of cancel when the
\* listener has called it already
DeferredCancel ==
  /\ mainPc \in {"saved", "failed"}
  /\ cancelled' = TRUE
  /\ UNCHANGED <<input, chans, table, files, source, workers, sink, mainPc,
                 sigChan, preflight, excel>>

\* ------------------------------------------------------------- worker start
\* for i := 0; i < workerCount; i++ { wg.Add(1); go processWorker(...) }
StartWorker ==
  /\ mainPc = "start"
  /\ started < workerCount
  /\ started' = started + 1
  /\ wPc' = Append(wPc, "recv")
  /\ wTask' = Append(wTask, 0)
  /\ UNCHANGED <<input, chans, table, files, source, callOutcome, sink,
                 mainPc, cancelled, sigChan, preflight, excel>>

\* the loop ends; go func() { ... } starts the task sender; main is at wg.Wait()
StartSource ==
  /\ mainPc = "start"
  /\ started = workerCount
  /\ srcPc' = "loop"
  /\ mainPc' = "wait"
  /\ UNCHANGED <<input, chans, table, files, srcI, sent, skipped, workers,
                 sink, cancelled, sigChan, preflight, excel>>

\* --------------------------------------------------------------- Task Source
\* A task sender that walks the rows from the last to the first.
SourceSendDescending ==
  /\ srcPc = "loop"
  /\ srcI <= NumRows
  /\ ~taskClosed
  /\ Len(taskChan) < ChanCap
  /\ taskChan' = Append(taskChan, NumRows + 1 - srcI)
  /\ sent' = sent \cup {NumRows + 1 - srcI}
  /\ srcI' = srcI + 1
  /\ UNCHANGED <<input, taskClosed, resultChan, resultClosed, table, files,
                 srcPc, skipped, workers, sink, mainPc, cancelled, sigChan, preflight, excel>>

\* select: case taskChan <- ProcessingTask{RowIndex: i, ...}
SourceSend ==
  /\ srcPc = "loop"
  /\ srcI <= NumRows
  /\ ~taskClosed
  /\ Len(taskChan) < ChanCap
  /\ taskChan' = Append(taskChan, srcI)
  /\ sent' = sent \cup {srcI}
  /\ srcI' = srcI + 1
  /\ UNCHANGED <<input, taskClosed, resultChan, resultClosed, table, files,
                 srcPc, skipped, workers, sink, mainPc, cancelled, sigChan, preflight, excel>>

\* A task sender whose select can leave a send only when the channel has room.
SourceSkipWhenRoom ==
  /\ srcPc = "loop"
  /\ srcI <= NumRows
  /\ cancelled
  /\ Len(taskChan) < ChanCap
  /\ skipped' = skipped \cup {srcI}
  /\ srcI' = srcI + 1
  /\ UNCHANGED <<input, chans, table, files, srcPc, sent, workers, sink,
                 mainPc, cancelled, sigChan, preflight, excel>>

\* select: case <-ctx.Done(): break  (leaves the select, not the loop)
SourceSkip ==
  /\ srcPc = "loop"
  /\ srcI <= NumRows
  /\ cancelled
  /\ skipped' = skipped \cup {srcI}
  /\ srcI' = srcI + 1
  /\ UNCHANGED <<input, chans, table, files, srcPc, sent, workers, sink,
                 mainPc, cancelled, sigChan, preflight, excel>>

\* A task sender that closes the channel from inside its loop.
SourceCloseInLoop ==
  /\ srcPc = "loop"
  /\ taskClosed' = TRUE
  /\ srcPc' = "done"
  /\ UNCHANGED <<input, taskChan, resultChan, resultClosed, table, files,
                 srcI, sent, skipped, workers, sink, mainPc, cancelled, sigChan, preflight, excel>>

\* close(taskChan) after the loop
SourceClose ==
  /\ srcPc = "loop"
  /\ srcI > NumRows
  /\ taskClosed' = TRUE
  /\ srcPc' = "done"
  /\ UNCHANGED <<input, taskChan, resultChan, resultClosed, table, files,
                 srcI, sent, skipped, workers, sink, mainPc, cancelled, sigChan, preflight, excel>>

\* -------------------------------------------------------------- Worker Pool
\* for task := range taskChan: a task is received
WorkerRecv(w) ==
  /\ wPc[w] = "recv"
  /\ taskChan # <<>>
  /\ wTask' = [wTask EXCEPT ![w] = Head(taskChan)]
  /\ taskChan' = Tail(taskChan)
  /\ wPc' = [wPc EXCEPT ![w] = "check"]
  /\ UNCHANGED <<input, started, taskClosed, resultChan, resultClosed, table, files,
                 source, callOutcome, sink, mainPc, cancelled, sigChan, preflight, excel>>

\* for task := range taskChan: the channel is closed and drained; wg.Done()
WorkerEnd(w) ==
  /\ wPc[w] = "recv"
  /\ taskChan = <<>>
  /\ taskClosed
  /\ wPc' = [wPc EXCEPT ![w] = "exit"]
  /\ UNCHANGED <<input, started, chans, table, files, source, wTask, callOutcome,
                 sink, mainPc, cancelled, sigChan, preflight, excel>>

\* select { case <-ctx.Done(): return (wg.Done()); default: processRow is called }
WorkerCheck(w) ==
  /\ wPc[w] = "check"
  /\ IF cancelled
       THEN /\ wPc' = [wPc EXCEPT ![w] = "exit"]
            /\ wTask' = [wTask EXCEPT ![w] = 0]
       ELSE /\ wPc' = [wPc EXCEPT ![w] = "call"]
            /\ wTask' = wTask
  /\ UNCHANGED <<input, started, chans, table, files, source, callOutcome, sink,
                 mainPc, cancelled, sigChan, preflight, excel>>

\* A worker that counts its row in the statistics itself when the call returns.
WorkerCallCounts(w) ==
  /\ wPc[w] = "call"
  /\ wPc' = [wPc EXCEPT ![w] = "send"]
  /\ stats' = [stats EXCEPT !.CompletedRows = @ + 1]
  /\ UNCHANGED <<input, started, chans, enrichedRows, processedCount,
                 writeCount, files, source, wTask, callOutcome, sink, mainPc,
                 cancelled, sigChan, preflight, excel>>

\* A worker that calls processRow and then calls it again for the same Task.
WorkerCallTwice(w) ==
  /\ wPc[w] \in {"call", "send"}
  /\ wPc' = [wPc EXCEPT ![w] = IF wPc[w] = "call" THEN "send" ELSE "call"]
  /\ UNCHANGED <<input, started, chans, table, files, source, wTask, callOutcome,
                 sink, mainPc, cancelled, sigChan, preflight, excel>>

\* processRow returns; the worker is at resultChan <- processingResult.  What
\* the call returned is not observable before the send: it is drawn there.
WorkerCall(w) ==
  /\ wPc[w] = "call"
  /\ wPc' = [wPc EXCEPT ![w] = "send"]
  /\ UNCHANGED <<input, started, chans, table, files, source, wTask, callOutcome,
                 sink, mainPc, cancelled, sigChan, preflight, excel>>

\* A worker that calls processRow again for a row whose call failed.
WorkerSendRetries(w) ==
  /\ wPc[w] = "send"
  /\ Len(resultChan) < ChanCap
  /\ \E out \in TransformOutcomes :
       /\ resultChan' = Append(resultChan, MakeResult(wTask[w], out))
       /\ callOutcome' = [callOutcome EXCEPT ![wTask[w]] = out]
       /\ IF out.ok
            THEN /\ wTask' = [wTask EXCEPT ![w] = 0]
                 /\ wPc' = [wPc EXCEPT ![w] = "recv"]
            ELSE /\ wTask' = wTask
                 /\ wPc' = [wPc EXCEPT ![w] = "call"]
  /\ UNCHANGED <<input, started, taskChan, taskClosed, resultClosed, table, files,
                 source, sink, mainPc, cancelled, sigChan, preflight, excel>>

\* resultChan <- processingResult, with the result built from processRow's return
WorkerSend(w) ==
  /\ wPc[w] = "send"
  /\ Len(resultChan) < ChanCap
  /\ \E out \in TransformOutcomes :
       /\ resultChan' = Append(resultChan, MakeResult(wTask[w], out))
       /\ callOutcome' = [callOutcome EXCEPT ![wTask[w]] = out]
  /\ wTask' = [wTask EXCEPT ![w] = 0]
  /\ wPc' = [wPc EXCEPT ![w] = "recv"]
  /\ UNCHANGED <<input, started, taskChan, taskClosed, resultClosed, table, files,
                 source, sink, mainPc, cancelled, sigChan, preflight, excel>>

\* -------------------------------------------------------------- Result Sink
\* A writer that emits the rows last to first.
SaveProgressReversed(tbl) == [i \in 1..Len(tbl) |-> tbl[Len(tbl) + 1 - i]]

\* saveProgress: the whole table goes to outputFile + ".tmp"
SaveProgress(tbl) == tbl

\* row[startIdx+i] is inside the row's slice for every target column
InRange(row) == \A t \in Targets : NumHeaders + t <= Len(row)

\* case result, ok := <-resultChan with ok: apply, count, save every batch
SinkApply ==
  /\ sinkPc = "select"
  /\ resultChan # <<>>
  /\ batchSize # 0
  /\ InRange(enrichedRows[SinkRow(Head(resultChan))])
  /\ LET res == Head(resultChan)
         i == SinkRow(res)
         tbl == [enrichedRows EXCEPT ![i] = ApplyResult(@, res)]
     IN /\ enrichedRows' = tbl
        /\ writeCount' = [writeCount EXCEPT ![i] = @ + 1]
        /\ stats' = UpdateStats(stats, res)
        /\ processedCount' = processedCount + 1
        /\ checkpoint' = IF BatchDue(processedCount + 1)
                           THEN SaveProgress(tbl) ELSE checkpoint
  /\ resultChan' = Tail(resultChan)
  /\ UNCHANGED <<input, taskChan, taskClosed, resultClosed, finalOutput,
                 ioError, source, workers, sink, mainPc, cancelled, sigChan, preflight, excel>>

\* case result, ok := <-resultChan with ok, on a row whose slice ends before
\* startIdx+i: the cells in range are written, then the index expression
\* panics and the process dies with all its goroutines.
SinkApplyPanics ==
  /\ sinkPc = "select"
  /\ resultChan # <<>>
  /\ ~InRange(enrichedRows[SinkRow(Head(resultChan))])
  /\ LET res == Head(resultChan)
         i == SinkRow(res)
     IN enrichedRows' = [enrichedRows EXCEPT ![i] = ApplyResult(@, res)]
  /\ resultChan' = Tail(resultChan)
  /\ sinkPc' = "panic"
  /\ mainPc' = "crashed"
  /\ srcPc' = "dead"
  /\ wPc' = [w \in WorkerIds |-> IF wPc[w] = "off" THEN "off" ELSE "dead"]
  /\ UNCHANGED <<input, started, taskChan, taskClosed, resultClosed, stats,
                 processedCount, writeCount, files, srcI, sent, skipped,
                 wTask, callOutcome, sinkPath, sinkCancelBuf, cancelled, sigChan, preflight, excel>>

\* case result, ok := <-resultChan with ok, batchSize 0: the row and the
\* statistics are updated, then processedCount%batchSize divides by zero and
\* the process dies with all its goroutines.
SinkApplyDividesByZero ==
  /\ sinkPc = "select"
  /\ resultChan # <<>>
  /\ batchSize = 0
  /\ InRange(enrichedRows[SinkRow(Head(resultChan))])
  /\ LET res == Head(resultChan)
         i == SinkRow(res)
     IN /\ enrichedRows' = [enrichedRows EXCEPT ![i] = ApplyResult(@, res)]
        /\ writeCount' = [writeCount EXCEPT ![i] = @ + 1]
        /\ stats' = UpdateStats(stats, res)
        /\ processedCount' = processedCount + 1
  /\ resultChan' = Tail(resultChan)
  /\ sinkPc' = "panic"
  /\ mainPc' = "crashed"
  /\ srcPc' = "dead"
  /\ wPc' = [w \in WorkerIds |-> IF wPc[w] = "off" THEN "off" ELSE "dead"]
  /\ UNCHANGED <<input, started, taskChan, taskClosed, resultClosed, files,
                 srcI, sent, skipped, wTask, callOutcome, sinkPath,
                 sinkCancelBuf, cancelled, sigChan, preflight, excel>>

\* case result, ok := <-resultChan with !ok: on to doneChan <- true
SinkClosed ==
  /\ sinkPc = "select"
  /\ resultChan = <<>>
  /\ resultClosed
  /\ sinkPc' = "done"
  /\ sinkPath' = "closed"
  /\ UNCHANGED <<input, chans, table, files, source, workers, sinkCancelBuf,
                 mainPc, cancelled, sigChan, preflight, excel>>

\* A timer save that opens the file for appending instead of creating it anew.
SinkTickAppends ==
  /\ sinkPc = "select"
  /\ checkpoint' = checkpoint \o SaveProgress(enrichedRows)
  /\ UNCHANGED <<input, chans, table, finalOutput, ioError, source, workers,
                 sink, mainPc, cancelled, sigChan, preflight, excel>>

\* A timer save that writes to outputFile instead of outputFile + ".tmp".
SinkTickToOutput ==
  /\ sinkPc = "select"
  /\ finalOutput' = SaveProgress(enrichedRows)
  /\ UNCHANGED <<input, chans, table, checkpoint, ioError, source, workers,
                 sink, mainPc, cancelled, sigChan, preflight, excel>>

\* case <-saveTimer.C: saveProgress
SinkTick ==
  /\ sinkPc = "select"
  /\ checkpoint' = SaveProgress(enrichedRows)
  /\ UNCHANGED <<input, chans, table, finalOutput, ioError, source, workers,
                 sink, mainPc, cancelled, sigChan, preflight, excel>>

\* case <-ctx.Done(): saveProgress, then on to doneChan <- true
SinkCancel ==
  /\ sinkPc = "select"
  /\ cancelled
  /\ checkpoint' = SaveProgress(enrichedRows)
  /\ sinkPc' = "done"
  /\ sinkPath' = "cancel"
  /\ sinkCancelBuf' = resultChan
  /\ UNCHANGED <<input, chans, table, finalOutput, ioError, source, workers,
                 mainPc, cancelled, sigChan, preflight, excel>>

\* The same saves when saveCSV / saveExcel returns an error (os.Create or
\* SaveAs fails, the file keeps its content).  saveProgress drops the error
\* and returns nothing, so each caller goes on as after a save that worked.
SinkApplySaveFails ==
  /\ sinkPc = "select"
  /\ resultChan # <<>>
  /\ InRange(enrichedRows[SinkRow(Head(resultChan))])
  /\ BatchDue(processedCount + 1)
  /\ LET res == Head(resultChan)
         i == SinkRow(res)
     IN /\ enrichedRows' = [enrichedRows EXCEPT ![i] = ApplyResult(@, res)]
        /\ writeCount' = [writeCount EXCEPT ![i] = @ + 1]
        /\ stats' = UpdateStats(stats, res)
        /\ processedCount' = processedCount + 1
  /\ resultChan' = Tail(resultChan)
  /\ ioError' = "checkpoint"
  /\ UNCHANGED <<input, taskChan, taskClosed, resultClosed, checkpoint,
                 finalOutput, source, workers, sink, mainPc, cancelled, sigChan, preflight, excel>>

SinkTickSaveFails ==
  /\ sinkPc = "select"
  /\ ioError' = "checkpoint"
  /\ UNCHANGED <<input, chans, table, checkpoint, finalOutput, source,
                 workers, sink, mainPc, cancelled, sigChan, preflight, excel>>

SinkCancelSaveFails ==
  /\ sinkPc = "select"
  /\ cancelled
  /\ ioError' = "checkpoint"
  /\ sinkPc' = "done"
  /\ sinkPath' = "cancel"
  /\ sinkCancelBuf' = resultChan
  /\ UNCHANGED <<input, chans, table, checkpoint, finalOutput, source,
                 workers, mainPc, cancelled, sigChan, preflight, excel>>

\* -------------------------------------------------------- processFullDataset
\* A caller that closes the result channel without waiting for the workers.
MainWaitNoJoin ==
  /\ mainPc = "wait"
  /\ mainPc' = "close"
  /\ UNCHANGED <<input, chans, table, files, source, workers, sink, cancelled, sigChan, preflight, excel>>

\* A caller that goes on as soon as one worker has ended.
MainWaitForOne ==
  /\ mainPc = "wait"
  /\ \E w \in WorkerIds : wPc[w] = "exit"
  /\ mainPc' = "close"
  /\ UNCHANGED <<input, chans, table, files, source, workers, sink, cancelled, sigChan, preflight, excel>>

\* wg.Wait() returns
MainWait ==
  /\ mainPc = "wait"
  /\ \A w \in WorkerIds : wPc[w] \in {"exit", "off"}
  /\ mainPc' = "close"
  /\ UNCHANGED <<input, chans, table, files, source, workers, sink, cancelled, sigChan, preflight, excel>>

\* close(resultChan)
MainClose ==
  /\ mainPc = "close"
  /\ resultClosed' = TRUE
  /\ mainPc' = "recvDone"
  /\ UNCHANGED <<input, taskChan, taskClosed, resultChan, table, files,
                 source, workers, sink, cancelled, sigChan, preflight, excel>>

\* A sink that goes back to its loop after it signalled done.
MainDoneSinkGoesOn ==
  /\ mainPc = "recvDone"
  /\ sinkPc = "done"
  /\ sinkPc' = "select"
  /\ mainPc' = "returned"
  /\ UNCHANGED <<input, chans, table, files, source, workers, sinkPath,
                 sinkCancelBuf, cancelled, sigChan, preflight, excel>>

\* doneChan <- true meets <-doneChan; processFullDataset returns
MainDone ==
  /\ mainPc = "recvDone"
  /\ sinkPc = "done"
  /\ sinkPc' = "exit"
  /\ mainPc' = "returned"
  /\ UNCHANGED <<input, chans, table, files, source, workers, sinkPath,
                 sinkCancelBuf, cancelled, sigChan, preflight, excel>>

\* RunProcessData: saveOutputFile(outputFile, ..., enrichedRows, ...)
SaveOutput ==
  /\ mainPc = "returned"
  /\ finalOutput' = enrichedRows
  /\ mainPc' = "saved"
  /\ UNCHANGED <<input, chans, table, checkpoint, ioError, source, workers,
                 sink, cancelled, sigChan, preflight, excel>>

\* ------------------------------------------------------------- specification
SourceStep == SourceSend \/ SourceSkip \/ SourceClose
WorkerStep(w) ==
  WorkerRecv(w) \/ WorkerEnd(w) \/ WorkerCheck(w) \/ WorkerCall(w) \/ WorkerSend(w)
\* RunProcessData: saveOutputFile returns an error, which RunProcessData
\* wraps and returns
SaveOutputFails ==
  /\ mainPc = "returned"
  /\ ioError' = "output"
  /\ mainPc' = "failed"
  /\ UNCHANGED <<input, chans, table, checkpoint, finalOutput, source,
                 workers, sink, cancelled, sigChan, preflight, excel>>

SinkStep == SinkApply \/ SinkClosed \/ SinkCancel
MainStep == MainWait \/ MainClose \/ MainDone \/ SaveOutput

Next ==
  \/ Interrupt
  \/ SourceSend
  \/ SourceSkip
  \/ SourceClose
  \/ \E w \in WorkerIds : WorkerRecv(w)
  \/ \E w \in WorkerIds : WorkerEnd(w)
  \/ \E w \in WorkerIds : WorkerCheck(w)
  \/ \E w \in WorkerIds : WorkerCall(w)
  \/ \E w \in WorkerIds : WorkerSend(w)
  \/ SinkApply
  \/ SinkClosed
  \/ SinkTick
  \/ SinkCancel
  \/ MainWait
  \/ MainClose
  \/ MainDone
  \/ SaveOutput

Spec == Init /\ [][Next]_vars

\* The pipeline on tables with rows of any length.
NextRagged ==
  \/ Next
  \/ SinkApplyPanics

SpecRagged == InitRagged /\ [][NextRagged]_vars

\* Only the task sender is sure to run: the workers may never receive again.
FairSourceSpec == Spec /\ WF_vars(SourceStep)

\* The pipeline for a -batch-size of zero or less.
NextBatch ==
  \/ Next
  \/ SinkApplyDividesByZero

SpecBatch == InitBatch /\ [][NextBatch]_vars

\* The pipeline for a -workers of zero or more.
SpecAnyWorkers == InitAnyWorkers /\ [][Next]_vars

\* The command from the pre-flight sample on.
NextSample ==
  \/ Next
  \/ SampleRow
  \/ SampleEnd
  \/ Confirm

SpecSample == InitSample /\ [][NextSample]_vars

\* One saveExcel call.
NextExcel ==
  \/ ColumnIndexToLetter
  \/ LetterLoop
  \/ SetCellValue
  \/ SaveAs

SpecExcel == InitExcel /\ [][NextExcel]_vars

\* The pipeline with further signals and the deferred cancel call.
NextSignals ==
  \/ Next
  \/ SignalAgain
  \/ DeferredCancel

SpecSignals == Init /\ [][NextSignals]_vars

\* The start of the pipeline for any -workers value.
NextStartup ==
  \/ StartWorker
  \/ StartSource

SpecStartup == InitStartup /\ [][NextStartup]_vars

\* The pipeline on a file system whose writes can fail.
NextIO ==
  \/ Next
  \/ SinkApplySaveFails
  \/ SinkTickSaveFails
  \/ SinkCancelSaveFails
  \/ SaveOutputFails

SpecIO == Init /\ [][NextIO]_vars

\* Every goroutine that can take a step eventually takes one; the interrupt
\* and the save timer are the environment's and get no fairness.
FairSpec ==
  /\ Spec
  /\ WF_vars(SourceStep)
  /\ \A w \in WorkerIds : WF_vars(WorkerStep(w))
  /\ WF_vars(SinkStep)
  /\ WF_vars(MainStep)

\* ------------------------------------------------------------------ claims
Returned == mainPc \in {"returned", "saved"}
Applied(i) == writeCount[i] >= 1
TargetCell(i, t) == enrichedRows[i][NumHeaders + t]
AllReal(i) == \A t \in Targets : TargetCell(i, t) = "val"
AllSentinel(i) == \A t \in Targets : TargetCell(i, t) = "ERROR"
BufferedRows(ch) == {ch[k].RowIndex : k \in 1..Len(ch)}

\* C1: once the cancellation signal has fired, and with every processRow call
\* returning and every goroutine scheduled, processFullDataset eventually
\* returns.
C1_CancelledRunReturns == cancelled ~> Returned

\* C2: when processFullDataset has returned, every Task that was sent on the
\* task channel has had exactly one Result applied by the sink.
C2_EverySentTaskApplied == Returned => \A i \in sent : writeCount[i] = 1

\* C3: a run in which the cancellation signal does not fire terminates, and
\* when it has returned every row has been written by the sink exactly once.
C3_UncancelledRunWritesEveryRowOnce ==
  /\ <>(cancelled \/ Returned)
  /\ []((Returned /\ ~cancelled) => \A i \in RowIdx : writeCount[i] = 1)

C3_Witness ==
  /\ mainPc = "returned"
  /\ ~cancelled
  /\ workerCount = MaxWorkers
  /\ stats.FailedRows >= 1
  /\ stats.CompletedRows >= 1
  /\ \A i \in RowIdx : writeCount[i] = 1

\* C4: in every run, cancelled or not, no row has a Result applied to the
\* Output Table more than once.
C4_NoRowAppliedTwice == \A i \in RowIdx : writeCount[i] <= 1

C4_Witness ==
  /\ cancelled
  /\ Returned
  /\ \E i \in RowIdx : writeCount[i] = 1
  /\ \E i \in RowIdx : writeCount[i] = 0

\* C5: in every reachable state completed + failed <= total rows.
C5_CountsWithinTotal == stats.CompletedRows + stats.FailedRows <= Len(rows)

C5_Witness ==
  /\ stats.CompletedRows + stats.FailedRows = Len(rows)
  /\ stats.FailedRows >= 1
  /\ stats.CompletedRows >= 1

\* C6: when the pipeline has terminated, completed + failed equals the number
\* of Tasks the Task Source sent on the task channel.
C6_CountsEqualDispatched ==
  Returned => stats.CompletedRows + stats.FailedRows = Cardinality(sent)

\* C7: once the Task Source has taken the cancellation case while offering
\* row i, it sends no Task for a row j > i.
C7_NoSendAfterCancelObserved ==
  \A i \in skipped : \A j \in sent : j < i

\* C8: when the sink has left its loop by observing cancellation, every Result
\* that was in the result channel's buffer at that moment has been applied.
C8_SinkDrainsBufferOnCancel ==
  sinkPath = "cancel" => \A i \in BufferedRows(sinkCancelBuf) : Applied(i)

\* C9: in every terminated run the last checkpoint written has the content of
\* the Output Table the pipeline returns.
C9_LastCheckpointIsReturnedTable == Returned => checkpoint = enrichedRows

\* C10: at termination every row whose Task was dispatched holds either real
\* values in all its target columns or the failure sentinel in all of them.
C10_DispatchedRowsAllRealOrAllSentinel ==
  Returned => \A i \in sent : AllReal(i) \/ AllSentinel(i)

\* C11: in a run without cancellation in which processRow failed for exactly
\* the rows FailedCalls, at return every row has been applied, exactly the rows
\* of FailedCalls hold the failure sentinel in every target column, failed is
\* their number and completed is the number of the other rows.
FailedCalls == {i \in RowIdx : callOutcome[i] # NoCall /\ ~callOutcome[i].ok}
C11_FailuresIsolated ==
  (Returned /\ ~cancelled) =>
    /\ \A i \in RowIdx : writeCount[i] = 1
    /\ \A i \in RowIdx : AllSentinel(i) <=> i \in FailedCalls
    /\ stats.FailedRows = Cardinality(FailedCalls)
    /\ stats.CompletedRows = Len(rows) - Cardinality(FailedCalls)

C11_Witness ==
  /\ mainPc = "returned"
  /\ ~cancelled
  /\ workerCount = MaxWorkers
  /\ FailedCalls = {2}
  /\ AllSentinel(2)
  /\ stats.FailedRows = 1

\* C12: at every point of a run the Output Table has as many rows as the
\* input, in the input's order, and every cell of an input row is still in
\* its place in the output row, whatever the row's number of cells.
C12_InputCellsPreserved ==
  /\ Len(enrichedRows) = Len(rows)
  /\ \A i \in RowIdx : \A j \in 1..Len(rows[i]) : enrichedRows[i][j] = rows[i][j]

\* C13: every checkpoint write leaves in the file the whole Output Table as it
\* is at that moment: all input rows in input order, the rows applied so far
\* with the values their Results carried, every other row with empty target
\* cells.
ProducedRow(i) ==
  ApplyResult(NewEnrichedRow(rows[i]), MakeResult(i, callOutcome[i]))
PlaceholderRow(i) == NewEnrichedRow(rows[i])
FullCurrentTable(file) ==
  /\ file = enrichedRows
  /\ Len(file) = Len(rows)
  /\ \A i \in RowIdx :
       file[i] = IF writeCount[i] = 0 THEN PlaceholderRow(i) ELSE ProducedRow(i)
C13_CheckpointIsFullCurrentTable ==
  [][checkpoint' # checkpoint => FullCurrentTable(checkpoint)']_vars

C13_Witness ==
  /\ checkpoint # <<>>
  /\ checkpoint = enrichedRows
  /\ writeCount[1] = 0
  /\ writeCount[2] = 1
  /\ checkpoint[2] = ProducedRow(2)
  /\ checkpoint[1] = PlaceholderRow(1)
  /\ sinkPc = "select"

\* C14: at termination total cost-units is the sum, over the rows whose Result
\* the sink applied, of the cost the service reported for the row's call,
\* failed calls included.
RECURSIVE SumTokens(_)
SumTokens(S) ==
  IF S = {} THEN 0
  ELSE LET i == CHOOSE x \in S : TRUE IN TokensUsed(i) + SumTokens(S \ {i})
AppliedRows == {i \in RowIdx : Applied(i)}
C14_TotalCostCountsEveryAppliedCall ==
  Returned => stats.TotalTokens = SumTokens(AppliedRows)

\* C15: right after applying a Result the sink writes a checkpoint exactly
\* when the number of Results processed so far, successes and failures
\* alike, is a multiple of batchSize; otherwise the checkpoint file is left
\* as it was.
C15_BatchCheckpointEveryBatchSize ==
  [][processedCount' # processedCount =>
       /\ processedCount' = stats'.CompletedRows + stats'.FailedRows
       /\ (processedCount' % batchSize = 0) <=> (checkpoint' = enrichedRows')
       /\ (processedCount' % batchSize # 0) => (checkpoint' = checkpoint)]_vars
C15_Witness ==
  /\ batchSize = MaxBatch
  /\ processedCount = MaxBatch
  /\ stats.FailedRows = 1
  /\ checkpoint = enrichedRows
  /\ sinkPc = "select"

\* C16: a checkpoint write changes only the in-progress file, never the file
\* at the output path; the output file is written once, from empty, by the
\* step that follows the return of the pipeline, when the sink and every
\* worker have ended.
PipelineEnded ==
  /\ mainPc = "returned"
  /\ sinkPc = "exit"
  /\ \A w \in WorkerIds : wPc[w] \in {"exit", "off"}
C16_FinalOutputWrittenOnceAtCompletion ==
  [][/\ checkpoint' # checkpoint => finalOutput' = finalOutput
     /\ finalOutput' # finalOutput =>
          /\ PipelineEnded
          /\ finalOutput = <<>>
          /\ finalOutput' = enrichedRows
          /\ mainPc' = "saved"
     /\ mainPc = "saved" => finalOutput' = finalOutput]_vars
C16_Witness ==
  /\ mainPc = "saved"
  /\ finalOutput = enrichedRows
  /\ checkpoint # <<>>
  /\ checkpoint # finalOutput

\* C17: a save that fails ends the run with a failure: a run whose checkpoint
\* write or final write returned an error never reaches its successful return.
C17_NoSuccessAfterFailedSave == mainPc = "saved" => ioError = "none"

\* C18: in a run without cancellation the returned Output Table and the
\* completed, failed and total-cost statistics are a function of what the
\* Row Transform returned for each row alone: the same for every worker
\* count and every order in which the Results reached the sink.
OkCalls == {i \in RowIdx : callOutcome[i] # NoCall /\ callOutcome[i].ok}
TableOfOutcomes == [i \in RowIdx |-> ProducedRow(i)]
StatsOfOutcomes ==
  [CompletedRows |-> Cardinality(OkCalls),
   FailedRows |-> Cardinality(FailedCalls),
   TotalTokens |-> SumTokens(OkCalls)]
C18_OutcomeIndependentOfSchedule ==
  (Returned /\ ~cancelled) =>
    /\ OkCalls \cup FailedCalls = RowIdx
    /\ enrichedRows = TableOfOutcomes
    /\ stats = StatsOfOutcomes
\* Row 2's Result was applied before row 1's (the last checkpoint shows it),
\* with the largest worker pool.
C18_Witness ==
  /\ mainPc = "returned"
  /\ ~cancelled
  /\ workerCount = MaxWorkers
  /\ checkpoint # <<>>
  /\ checkpoint[1] = PlaceholderRow(1)
  /\ checkpoint[2] = ProducedRow(2)
  /\ enrichedRows[1] = ProducedRow(1)
  /\ enrichedRows[1] # checkpoint[1]
  /\ OkCalls # {}
  /\ FailedCalls # {}

\* C19: the number of worker executors started for a run never exceeds the
\* documented maximum of 100, whatever the -workers value.
C19_WorkersStartedAtMostMax == started <= DocumentedMaxWorkers

\* C20: when the cancellation signal has fired and the Task Source is at a
\* send on a full task channel, it leaves the send and eventually closes the
\* task channel, even if no worker ever receives again.
PendingSendBlocked ==
  /\ cancelled
  /\ srcPc = "loop"
  /\ srcI <= NumRows
  /\ Len(taskChan) = ChanCap
C20_SourceAbandonsPendingSend == PendingSendBlocked ~> taskClosed
\* The channel was full when the source took the ctx.Done() case, and it is
\* closed, still full.
C20_Witness ==
  /\ cancelled
  /\ taskClosed
  /\ srcPc = "done"
  /\ skipped # {}
  /\ Len(taskChan) = ChanCap
  /\ \A w \in WorkerIds : wTask[w] = 0

\* C21: the task channel is closed once, by the Task Source, and only after
\* every row was sent or skipped on cancellation; once it is closed it stays
\* closed and nothing more is sent on it.
C21_TaskChanClosedOnceAfterAllRows ==
  [][/\ taskClosed' # taskClosed =>
          /\ ~taskClosed
          /\ srcPc = "loop"
          /\ srcPc' = "done"
          /\ sent \cup skipped = RowIdx
          /\ skipped # {} => cancelled
     /\ taskClosed =>
          /\ taskClosed'
          /\ sent' = sent
          /\ Len(taskChan') <= Len(taskChan)]_vars
C21_Witness ==
  /\ taskClosed
  /\ srcPc = "done"
  /\ sent # {}
  /\ skipped # {}
  /\ sent \cup skipped = RowIdx

\* C22: Tasks enter the task channel in strictly ascending row-index order
\* and no row index is sent twice, also in runs where cancellation makes the
\* Task Source skip rows.
C22_TasksSentAscendingOnce ==
  [][sent' # sent =>
       \E i \in RowIdx \ sent :
         /\ sent' = sent \cup {i}
         /\ \A j \in sent \cup skipped : j < i
         /\ taskChan' = Append(taskChan, i)]_vars
\* a row was sent after an earlier row had been skipped
C22_Witness ==
  /\ cancelled
  /\ \E i \in sent : \E j \in skipped : j < i
  /\ \E i \in sent : \E j \in skipped : i < j

\* C23: once the cancellation signal has fired no worker removes a further
\* Task from the task channel.
C23_NoPullAfterCancel ==
  [][cancelled => /\ Len(taskChan') >= Len(taskChan)
                  /\ \A w \in WorkerIds : wTask[w] = 0 => wTask'[w] = 0]_vars

\* C24: Row Transform is invoked at most once for each Task, whether the call
\* succeeds or fails: a worker enters the call only straight from pulling a
\* Task that nobody else holds and that was never called before, and what a
\* call returned for a row is never replaced by a second call.
Invoked(i) ==
  \/ callOutcome[i] # NoCall
  \/ \E w \in WorkerIds : wTask[w] = i /\ wPc[w] \in {"call", "send"}
TaskHolders(i) ==
  Cardinality({w \in WorkerIds : wTask[w] = i})
    + Cardinality({k \in 1..Len(taskChan) : taskChan[k] = i})
C24_OneInvocationPerTask ==
  [][/\ \A w \in WorkerIds :
          (wPc'[w] = "call" /\ wPc[w] # "call") =>
             /\ wPc[w] = "check"
             /\ ~Invoked(wTask[w])
             /\ TaskHolders(wTask[w]) = 1
     /\ \A i \in RowIdx :
          callOutcome[i] # NoCall => callOutcome'[i] = callOutcome[i]]_vars
\* a row whose call failed: its Result was applied and nobody holds the row
C24_Witness ==
  /\ FailedCalls # {}
  /\ \A i \in FailedCalls : Applied(i) /\ TaskHolders(i) = 0
  /\ \E w \in WorkerIds : wPc[w] = "call"

\* C25: after initialization only the Result Sink changes the Output Table
\* and the Run Statistics: a step of a worker, of the Task Source or of the
\* Shutdown Orchestrator leaves both as they are, and the orchestrator's step
\* changes the cancellation state and nothing else.
pipeline ==
  <<input, chans, table, files, source, workers, sink, mainPc>>
C25_OnlySinkMutatesTableAndStats ==
  [][/\ (workers' # workers \/ source' # source \/ cancelled' # cancelled) =>
          UNCHANGED <<enrichedRows, stats>>
     /\ (enrichedRows' # enrichedRows \/ stats' # stats) =>
          /\ sinkPc = "select"
          /\ resultChan # <<>>
          /\ resultChan' = Tail(resultChan)
     /\ cancelled' # cancelled => UNCHANGED pipeline]_vars
\* the table and the statistics hold a Result while workers, the task sender
\* and the interrupt have all taken steps
C25_Witness ==
  /\ cancelled
  /\ stats.CompletedRows + stats.FailedRows >= 1
  /\ \E i \in RowIdx : writeCount[i] = 1
  /\ skipped # {}
  /\ \E w \in WorkerIds : wPc[w] = "exit"

\* C26: at any time at most workerCount Row Transform calls are outstanding
\* and each channel buffers at most 2*workerCount entries; while the task
\* channel is full and cancellation has not fired the Task Source, with a
\* row left to send, takes no step.
OutstandingCalls == Cardinality({w \in WorkerIds : wPc[w] = "call"})
C26_BoundedConcurrencyAndBuffers ==
  /\ [](/\ OutstandingCalls <= workerCount
        /\ Len(taskChan) <= 2 * workerCount
        /\ Len(resultChan) <= 2 * workerCount)
  /\ [][(Len(taskChan) = 2 * workerCount /\ ~cancelled /\ srcI <= NumRows) =>
          UNCHANGED source]_vars
\* the task sender waits with a row in hand at a full task channel
C26_Witness ==
  /\ ~cancelled
  /\ srcPc = "loop"
  /\ srcI <= NumRows
  /\ Len(taskChan) = 2 * workerCount

\* C27: the cancellation signal is one-shot and idempotent: once fired it
\* stays fired; the Task Source, every worker and the Result Sink can each
\* take their ctx.Done() step from then on; a further interruption request is
\* only buffered and a repeated cancel call changes nothing of the pipeline.
SourceSeesCancel == (srcPc = "loop" /\ srcI <= NumRows) => ENABLED SourceSkip
WorkersSeeCancel ==
  \A w \in WorkerIds :
    wPc[w] = "check" => ENABLED (WorkerCheck(w) /\ wPc'[w] = "exit")
SinkSeesCancel == sinkPc = "select" => ENABLED SinkCancel
C27_CancellationOneShotIdempotent ==
  /\ [](cancelled => SourceSeesCancel /\ WorkersSeeCancel /\ SinkSeesCancel)
  /\ [][/\ cancelled => cancelled'
        /\ cancelled' # cancelled => UNCHANGED <<pipeline, sigChan, preflight, excel>>
        /\ sigChan' # sigChan => cancelled /\ UNCHANGED <<pipeline, cancelled>>]_vars
\* a second interruption request arrived while the cancelled pipeline was
\* still running
C27_Witness ==
  /\ cancelled
  /\ sigChan = 1
  /\ mainPc = "wait"
  /\ sinkPc = "select"
  /\ srcPc = "loop"
  /\ \E w \in WorkerIds : wPc[w] = "check"

\* C28: checkpointing is idempotent: when the checkpoint file holds the
\* current table, a step that applies no Result leaves the file's content as
\* it is, however often it writes; and a checkpoint write outside an apply
\* leaves the Output Table and the statistics unchanged.
C28_CheckpointIdempotent ==
  [][/\ (checkpoint = SaveProgress(enrichedRows) /\ processedCount' = processedCount)
          => checkpoint' = checkpoint
     /\ (checkpoint' # checkpoint /\ processedCount' = processedCount)
          => /\ checkpoint' = SaveProgress(enrichedRows)
             /\ UNCHANGED table]_vars
\* with batchSize 1 the last apply wrote the checkpoint, and the sink's
\* ctx.Done() case wrote it again
C28_Witness ==
  /\ batchSize = 1
  /\ processedCount >= 1
  /\ sinkPath = "cancel"
  /\ resultChan = sinkCancelBuf
  /\ checkpoint = SaveProgress(enrichedRows)

\* C29: the step in which the sink applies a Result overwrites every target
\* cell of the addressed row, with the produced value where the Result's
\* mapping has the target column and with the empty string where it has not;
\* the row's other cells and all other rows stay as they are.
C29_ApplyOverwritesEveryTargetCell ==
  [][processedCount' # processedCount =>
       LET res == Head(resultChan)
           i == res.RowIndex
       IN /\ \A t \in Targets :
               enrichedRows'[i][NumHeaders + t] =
                 IF t \in DOMAIN res.Results THEN res.Results[t] ELSE ""
          /\ \A j \in 1..NumHeaders : enrichedRows'[i][j] = enrichedRows[i][j]
          /\ Len(enrichedRows'[i]) = Len(enrichedRows[i])
          /\ \A k \in RowIdx \ {i} : enrichedRows'[k] = enrichedRows[k]]_vars
\* a Result whose mapping lacked the last target column was applied to row 2,
\* row 1 still as allocated
C29_Witness ==
  /\ callOutcome[2] # NoCall
  /\ callOutcome[2].ok
  /\ callOutcome[2].keys # Targets
  /\ writeCount[2] = 1
  /\ enrichedRows[2][NumHeaders + 1] = "val"
  /\ enrichedRows[2][NumHeaders + NumTargets] = ""
  /\ enrichedRows[1] = PlaceholderRow(1)

\* C30: for every input row, rows with fewer cells than headers included, the
\* positions len(headers)+i the sink writes lie inside the row's output
\* slice of len(row)+len(targets) cells, and applying a Result never faults.
C30_SinkWritesInRange ==
  /\ resultChan # <<>> => InRange(enrichedRows[SinkRow(Head(resultChan))])
  /\ sinkPc # "panic"

\* C31: the result channel is closed once, only when every worker has ended,
\* and nothing is sent on it after the close, in normal and in cancelled
\* runs; the sink hands over its done signal once, and a run that returned
\* has had both.
C31_ResultChanClosedAfterWorkers ==
  /\ [](Returned => resultClosed /\ sinkPc = "exit")
  /\ [][/\ resultClosed' # resultClosed =>
             /\ ~resultClosed
             /\ mainPc = "close"
             /\ \A w \in WorkerIds : wPc[w] \in {"exit", "off"}
        /\ resultClosed =>
             /\ resultClosed'
             /\ Len(resultChan') <= Len(resultChan)
             /\ \A w \in WorkerIds : wPc'[w] \in {"exit", "off"}
        /\ sinkPc' # sinkPc =>
             \/ sinkPc = "select" /\ sinkPc' = "done"
             \/ sinkPc = "done" /\ sinkPc' = "exit" /\ mainPc = "recvDone"]_vars
\* a cancelled run of the largest pool that closed the channel with Results
\* still buffered and took the sink's done signal
C31_Witness ==
  /\ cancelled
  /\ workerCount = MaxWorkers
  /\ resultClosed
  /\ resultChan # <<>>
  /\ sinkPath = "cancel"
  /\ sinkPc = "exit"
  /\ mainPc = "returned"

\* C32: for every batch size the command line accepts, zero and negative
\* values included, the sink applies every Result without faulting.
C32_NoFaultForAnyBatchSize == batchSize <= 0 => mainPc # "crashed"

\* C33: for every worker count the command line accepts, zero included, a
\* run that is not cancelled returns and saves its output only after a Result
\* has been applied for every input row.
C33_CompleteOnlyWhenEveryRowApplied ==
  (mainPc \in {"returned", "saved"} /\ ~cancelled) =>
    \A i \in RowIdx : Applied(i)

\* C34: once processFullDataset has returned, no step of any goroutine that
\* is still alive changes the returned Output Table or the Run Statistics,
\* and the output file written afterwards holds exactly the returned table.
C34_ReturnedTableIsFrozen ==
  /\ [](mainPc = "saved" => finalOutput = enrichedRows)
  /\ [][(mainPc \in {"returned", "saved"}) =>
          (UNCHANGED <<enrichedRows, stats, writeCount>>)]_vars
\* the output file is written while the task sender is still in its loop and
\* Results are left in the channel
C34_Witness ==
  /\ mainPc = "saved"
  /\ finalOutput = enrichedRows
  /\ srcPc = "loop"
  /\ resultChan # <<>>
  /\ \E i \in RowIdx : writeCount[i] = 1

\* C35: whenever the sink waits for its next event its processed-Result
\* counter equals completed + failed, and both equal the number of rows whose
\* target cells the sink has written.
WrittenRows == {i \in RowIdx : writeCount[i] >= 1}
C35_SinkCountersAgree ==
  sinkPc = "select" =>
    /\ processedCount = stats.CompletedRows + stats.FailedRows
    /\ processedCount = Cardinality(WrittenRows)
C35_Witness ==
  /\ sinkPc = "select"
  /\ processedCount = 2
  /\ stats.CompletedRows = 1
  /\ stats.FailedRows = 1
  /\ Cardinality(WrittenRows) = 2

\* C36: in an invocation that goes on to full processing, processRow is
\* called for the first min(sampleSize, rowCount) rows once in the pre-flight
\* sample, in order, and once more in the full run; a sample call changes
\* neither the Output Table nor the files, and the table the full run
\* allocates holds only placeholders in its target columns; a failed sample
\* row does not end the command; and the pipeline exists only after the
\* answer y (in either case).
PreFlight == {"sample", "confirm", "declined"}
SampledRows == 1..SampleLen(preflight.size)
C36_SampleThenConfirmedFullRun ==
  /\ [](mainPc # "sample" => preflight.calls = [k \in SampledRows |-> k])
  /\ [](mainPc \in PreFlight =>
          /\ enrichedRows = <<>>
          /\ \A i \in RowIdx : ~Invoked(i) /\ writeCount[i] = 0
          /\ srcPc = "off" /\ sinkPc = "off" /\ started = 0
          /\ taskChan = <<>> /\ resultChan = <<>>
          /\ checkpoint = <<>> /\ finalOutput = <<>>)
  /\ [](mainPc \notin PreFlight => ToLower(preflight.response) = "y")
  /\ [](mainPc # "failed")
  /\ []((Returned /\ ~cancelled) =>
          \A i \in SampledRows : callOutcome[i] # NoCall /\ writeCount[i] = 1)
  /\ [][/\ (preflight.calls' # preflight.calls) =>
             (/\ mainPc' = "sample"
              /\ UNCHANGED <<table, files, callOutcome>>)
        /\ (mainPc = "confirm" /\ mainPc' # "confirm") =>
             \/ mainPc' = "declined" /\ ToLower(preflight'.response) # "y"
             \/ /\ mainPc' = "wait"
                /\ ToLower(preflight'.response) = "y"
                /\ \A i \in RowIdx : \A t \in Targets :
                     enrichedRows'[i][NumHeaders + t] = ""]_vars

\* A confirmed, uncancelled run whose sample of two rows failed on row 1 and
\* whose full run then filled row 1 with real values.
C36_Witness ==
  /\ mainPc = "saved"
  /\ ~cancelled
  /\ preflight.size = 2
  /\ preflight.calls = <<1, 2>>
  /\ preflight.failed = {1}
  /\ preflight.response = "Y"
  /\ AllReal(1)
  /\ callOutcome[2] # NoCall

\* C37: columnIndexToLetter gives column index n >= 0 its spreadsheet name
\* in bijective base 26: the name's letters, read as digits 1..26, have the
\* value n + 1 (so 0 -> A, 25 -> Z, 26 -> AA, 701 -> ZZ, 702 -> AAA); its
\* loop ends, since each pass lowers the index and never below -1; and the
\* header cells saveExcel writes for distinct columns are distinct.
LetterNo(c) == CHOOSE k \in 1..26 : Letters[k] = c
RECURSIVE BijectiveValue(_)
BijectiveValue(name) ==
  IF name = <<>> THEN 0
  ELSE BijectiveValue(SubSeq(name, 1, Len(name) - 1)) * 26
         + LetterNo(name[Len(name)])
Landmark(n) ==
  CASE n = 0   -> <<"A">>
    [] n = 25  -> <<"Z">>
    [] n = 26  -> <<"A", "A">>
    [] n = 701 -> <<"Z", "Z">>
    [] n = 702 -> <<"A", "A", "A">>
    [] OTHER   -> excel.result
C37_ColumnNamesBijectiveBase26 ==
  /\ [](Cardinality(excel.cells) = excel.col)
  /\ [](excel.index >= -1)
  /\ [][/\ (excel.pc = "letters" /\ excel.pc' = "letters") =>
             (/\ excel.index' < excel.index
              /\ Len(excel.result') = Len(excel.result) + 1)
        /\ (excel.pc = "letters" /\ excel.pc' = "col") =>
             (/\ BijectiveValue(excel.result) = excel.col + 1
              /\ excel.result = Landmark(excel.col)
              /\ excel.result \notin excel.cells
              /\ excel.result \in excel.cells')]_vars

\* A sheet of 703 columns saved: column 702 was named AAA, after AA and ZZ.
C37_Witness ==
  /\ excel.pc = "done"
  /\ excel.width = MaxColumns
  /\ Cardinality(excel.cells) = MaxColumns
  /\ {<<"A">>, <<"Z">>, <<"A", "A">>, <<"Z", "Z">>, <<"A", "A", "A">>}
       \subseteq excel.cells

====
